---- MODULE Spec2Model ----
(***************************************************************************)
(* Route registration of the net-stubbing driver                           *)
(* (packages/driver/src/cy/net-stubbing/register-commands.ts):             *)
(* cy.route2 -> getMatcherOptions -> validateRouteMatcherOptions ->         *)
(* addRoute -> state('routes')[handlerId] = ... -> emitNetEvent.            *)
(*                                                                         *)
(* JavaScript values are records [t, s, n, l, e]: t the type tag, s the     *)
(* string payload, n the numeric payload, l the elements of an array, e    *)
(* the own enumerable entries of an object in insertion order.             *)
(***************************************************************************)
EXTENDS Integers, Sequences, FiniteSets, TLC

VARIABLES
    config,     \* Cypress.config('experimentalNetworkMocking')
    routes,     \* state('routes'): handlerId -> route entry
    frames,     \* route:added frames handed to emitNetEvent, with the state of each exchange
    idCounter,  \* lodash's _.uniqueId counter
    now,        \* Number(new Date())
    calls,      \* the route2 calls made so far, with their outcome
    input,      \* the arguments of the call under study (SpecArgs) or the matcher (SpecMatcher)
    probe,      \* results of the pure functions applied to input (SpecMatcher)
    bridge      \* the event bridge: request contexts, reported errors, session end

vars == <<config, routes, frames, idCounter, now, calls, input, probe, bridge>>

----------------------------------------------------------------------------
(* JavaScript values *)

JSVal(t, s, n, l, e) == [t |-> t, s |-> s, n |-> n, l |-> l, e |-> e]

Undefined == JSVal("undefined", "", 0, <<>>, <<>>)

Null == JSVal("null", "", 0, <<>>, <<>>)

Str(s) == JSVal("string", s, 0, <<>>, <<>>)

RegExpOf(src) == JSVal("regexp", src, 0, <<>>, <<>>)

Num(n) == JSVal("number", "", n, <<>>, <<>>)

Bool(b) == JSVal("boolean", "", IF b THEN 1 ELSE 0, <<>>, <<>>)

Fn(name) == JSVal("function", name, 0, <<>>, <<>>)

Arr(l) == JSVal("array", "", 0, l, <<>>)

Obj(e) == JSVal("object", "", 0, <<>>, e)

KV(k, v) == [k |-> k, v |-> v]

\* JavaScript truthiness: undefined, null, '', 0 and false are falsy.
Truthy(v) ==
    CASE v.t \in {"undefined", "null"} -> FALSE
      [] v.t = "string" -> v.s # ""
      [] v.t = "number" -> v.n # 0
      [] v.t = "boolean" -> v.n = 1
      [] OTHER -> TRUE

RECURSIVE JoinStrings(_, _)
JoinStrings(seq, sep) ==
    IF seq = <<>> THEN ""
    ELSE IF Len(seq) = 1 THEN seq[1]
    ELSE seq[1] \o sep \o JoinStrings(Tail(seq), sep)

\* value.toString() / String(value)
RECURSIVE ToStr(_)
ToStr(v) ==
    CASE v.t = "string" -> v.s
      [] v.t = "regexp" -> "/" \o v.s \o "/"
      [] v.t = "number" -> ToString(v.n)
      [] v.t = "boolean" -> (IF v.n = 1 THEN "true" ELSE "false")
      [] v.t = "array" -> JoinStrings([i \in 1..Len(v.l) |-> ToStr(v.l[i])], ",")
      [] v.t = "object" -> "[object Object]"
      [] v.t = "function" -> "function " \o v.s
      [] OTHER -> v.t

\* JSON.stringify: object members whose value is undefined or a function are
\* left out, array elements of that kind become null.
RECURSIVE JSONstringify(_)
JSONstringify(v) ==
    CASE v.t = "string" -> "\"" \o v.s \o "\""
      [] v.t = "number" -> ToString(v.n)
      [] v.t = "boolean" -> (IF v.n = 1 THEN "true" ELSE "false")
      [] v.t = "array" ->
            "[" \o JoinStrings([i \in 1..Len(v.l) |->
                      IF v.l[i].t \in {"undefined", "function"} THEN "null"
                      ELSE JSONstringify(v.l[i])], ",") \o "]"
      [] v.t = "object" ->
            LET kept == SelectSeq(v.e, LAMBDA p : p.v.t \notin {"undefined", "function"})
            IN "{" \o JoinStrings([i \in 1..Len(kept) |->
                      "\"" \o kept[i].k \o "\":" \o JSONstringify(kept[i].v)], ",") \o "}"
      [] v.t = "regexp" -> "{}"
      [] OTHER -> "null"

----------------------------------------------------------------------------
(* lodash *)

\* _.keys: own enumerable keys; the indices of an array or of a string.
keys(v) ==
    CASE v.t = "object" -> [i \in 1..Len(v.e) |-> v.e[i].k]
      [] v.t = "array" -> [i \in 1..Len(v.l) |-> ToString(i - 1)]
      [] v.t = "string" -> [i \in 1..Len(v.s) |-> ToString(i - 1)]
      [] OTHER -> <<>>

hasKey(v, k) == \E i \in 1..Len(keys(v)) : keys(v)[i] = k

getKey(v, k) ==
    IF ~hasKey(v, k) THEN Undefined
    ELSE LET i == CHOOSE j \in 1..Len(keys(v)) : keys(v)[j] = k
         IN CASE v.t = "object" -> v.e[i].v
              [] v.t = "array" -> v.l[i]
              [] OTHER -> Str("?")

\* _.has(object, path): path is the sequence of keys of the dotted path.
RECURSIVE has(_, _)
has(v, path) ==
    IF path = <<>> THEN TRUE
    ELSE hasKey(v, Head(path)) /\ has(getKey(v, Head(path)), Tail(path))

\* _.get(object, path)
RECURSIVE get(_, _)
get(v, path) ==
    IF path = <<>> THEN v
    ELSE get(getKey(v, Head(path)), Tail(path))

setKey(v, k, x) ==
    IF hasKey(v, k)
    THEN Obj([i \in 1..Len(v.e) |-> IF v.e[i].k = k THEN KV(k, x) ELSE v.e[i]])
    ELSE Obj(Append(v.e, KV(k, x)))

\* _.set(object, path, value): missing intermediate objects are created.
RECURSIVE set(_, _, _)
set(v, path, x) ==
    IF Len(path) = 1 THEN setKey(v, path[1], x)
    ELSE LET inner == IF getKey(v, path[1]).t = "object" THEN getKey(v, path[1]) ELSE Obj(<<>>)
         IN setKey(v, path[1], set(inner, Tail(path), x))

\* _.isEmpty: no own enumerable keys; every primitive but a non-empty string is empty.
isEmpty(v) == Len(keys(v)) = 0

isString(v) == v.t = "string"

isNumber(v) == v.t = "number"

isBoolean(v) == v.t = "boolean"

isUndefined(v) == v.t = "undefined"

isObjectLike(v) == v.t \in {"object", "array", "regexp"}

\* _.pick(object, paths) followed by _.extend(ret, ...)
RECURSIVE extendPick(_, _, _)
extendPick(ret, v, ks) ==
    IF ks = <<>> THEN ret
    ELSE extendPick(IF hasKey(v, Head(ks)) THEN setKey(ret, Head(ks), getKey(v, Head(ks))) ELSE ret,
                    v, Tail(ks))

\* _.intersection(a, b) of two key lists, as a set
intersection(a, b) == {a[i] : i \in 1..Len(a)} \cap {b[i] : i \in 1..Len(b)}

pathString(path) == JoinStrings(path, ".")

----------------------------------------------------------------------------
(* Matcher annotation and validation *)

STATIC_RESPONSE_KEYS == <<"body", "fixture", "statusCode", "headers", "destroySocket">>

\* The pattern-capable fields of a matcher, as paths.
STRING_MATCHER_FIELDS == << <<"method">>, <<"url">> >>

DICT_STRING_MATCHER_FIELDS == <<"headers", "query">>

\* The '${field}.${key}' paths of one dictionary field; none when its value is falsy.
dictMatcherFields(options, field) ==
    LET value == getKey(options, field)
    IN IF Truthy(value)
       THEN [i \in 1..Len(keys(value)) |-> <<field, keys(value)[i]>>]
       ELSE <<>>

RECURSIVE flattenDictFields(_, _)
flattenDictFields(options, fields) ==
    IF fields = <<>> THEN <<>>
    ELSE dictMatcherFields(options, Head(fields)) \o flattenDictFields(options, Tail(fields))

getAllStringMatcherFields(options) ==
    STRING_MATCHER_FIELDS \o flattenDictFields(options, DICT_STRING_MATCHER_FIELDS)

isRegExp(obj) == Truthy(obj) /\ obj.t = "regexp"

isStringMatcher(obj) == isRegExp(obj) \/ isString(obj)

\* Mutant: an array counts as a number matcher whatever its elements are.
isNumberMatcher_AnyArray(obj) == obj.t = "array" \/ isNumber(obj)

isNumberMatcher(obj) ==
    IF obj.t = "array" THEN \A i \in 1..Len(obj.l) : isNumber(obj.l[i]) ELSE isNumber(obj)

isHttpRequestInterceptor(obj) == obj.t = "function"

AnnotatedStringMatcher(value) ==
    Obj(<<KV("type", Str(IF isRegExp(value) THEN "regex" ELSE "glob")),
          KV("value", Str(ToStr(value)))>>)

\* The forEach of annotateMatcherOptionsTypes: a field is annotated when its value is truthy.
RECURSIVE annotateFields(_, _, _)
annotateFields(options, fields, ret) ==
    IF fields = <<>> THEN ret
    ELSE LET value == get(options, Head(fields))
         IN annotateFields(options, Tail(fields),
                IF Truthy(value) THEN set(ret, Head(fields), AnnotatedStringMatcher(value)) ELSE ret)

noAnnotationRequiredFields == <<"https", "port", "webSocket">>

annotateMatcherOptionsTypes(options) ==
    extendPick(annotateFields(options, getAllStringMatcherFields(options), Obj(<<>>)),
               options, noAnnotationRequiredFields)

Valid == [ok |-> TRUE, message |-> ""]

Invalid(message) == [ok |-> FALSE, message |-> message]

\* The first path, in order, that is present and is no string or regular expression.
RECURSIVE firstBadPath(_, _)
firstBadPath(routeMatcher, paths) ==
    IF paths = <<>> THEN <<>>
    ELSE IF has(routeMatcher, Head(paths)) /\ ~isStringMatcher(get(routeMatcher, Head(paths)))
         THEN Head(paths)
         ELSE firstBadPath(routeMatcher, Tail(paths))

\* The Error thrown, or Valid when the function returns.
validateRouteMatcherOptions(routeMatcher) ==
    IF isEmpty(routeMatcher)
    THEN Invalid("The RouteMatcher does not contain any keys. You must pass something to match on.")
    ELSE IF firstBadPath(routeMatcher, getAllStringMatcherFields(routeMatcher)) # <<>>
    THEN Invalid("'" \o pathString(firstBadPath(routeMatcher, getAllStringMatcherFields(routeMatcher)))
                 \o "' must be a string or a regular expression.")
    ELSE IF hasKey(routeMatcher, "https") /\ ~isBoolean(getKey(routeMatcher, "https"))
    THEN Invalid("'https' must be a boolean.")
    ELSE IF hasKey(routeMatcher, "port") /\ ~isNumberMatcher(getKey(routeMatcher, "port"))
    THEN Invalid("'port' must be a number or a list of numbers.")
    ELSE Valid

----------------------------------------------------------------------------
(* Static responses (static-response-utils, Static Response Normalizer) *)

\* Rejects a response that sets destroySocket together with a body or a statusCode.
validateStaticResponse(staticResponse) ==
    IF Truthy(getKey(staticResponse, "destroySocket"))
       /\ (hasKey(staticResponse, "body") \/ hasKey(staticResponse, "statusCode"))
    THEN Invalid("'destroySocket' cannot be combined with 'body' or 'statusCode'.")
    ELSE Valid

defaultKey(v, k, x) == IF hasKey(v, k) THEN v ELSE setKey(v, k, x)

\* The transmissible static response: statusCode 200, a placeholder body and
\* empty headers where absent; a destroySocket response carries no defaults.
getBackendStaticResponse(staticResponse) ==
    IF Truthy(getKey(staticResponse, "destroySocket"))
    THEN Obj(staticResponse.e)
    ELSE defaultKey(defaultKey(defaultKey(Obj(staticResponse.e),
                "body", Str("<empty body>")), "statusCode", Num(200)), "headers", Obj(<<>>))

----------------------------------------------------------------------------
(* Registration *)

\* Mutant: the identifier is the timestamp alone.
getUniqueId_TimeOnly(time, counter) == ToString(time)

getUniqueId(time, counter) == ToString(time) \o "-" \o ToString(counter)

matcherDisplay(matcher, k) ==
    IF Truthy(getKey(matcher, k)) THEN ToStr(getKey(matcher, k)) ELSE "*"

getNewRouteLog(matcher, isStubbed, alias, staticResponse) ==
    [name |-> "route",
     instrument |-> "route",
     isStubbed |-> isStubbed,
     numResponses |-> 0,
     response |->
        IF Truthy(staticResponse)
        THEN (IF Truthy(getKey(staticResponse, "body"))
              THEN getKey(staticResponse, "body") ELSE Str("<empty body>"))
        ELSE (IF isStubbed THEN Str("< callback function >") ELSE Str("< passthrough >")),
     method |-> matcherDisplay(matcher, "method"),
     url |-> matcherDisplay(matcher, "url"),
     status |->
        IF Truthy(staticResponse)
        THEN (IF Truthy(getKey(staticResponse, "statusCode"))
              THEN getKey(staticResponse, "statusCode") ELSE Num(200))
        ELSE Undefined,
     alias |-> IF Truthy(alias) THEN alias ELSE Undefined]

\* Mutant: the empty mapping is wrapped like any other plain object.
wrapJsonHandler_NoEmptyCheck(handler) ==
    IF intersection(keys(handler), STATIC_RESPONSE_KEYS) = {}
    THEN Obj(<<KV("body", Str(JSONstringify(handler))),
               KV("headers", Obj(<<KV("content-type", Str("application/json"))>>))>>)
    ELSE handler

\* The handler after the mapping case has wrapped a plain JSON object.
wrapJsonHandler(handler) ==
    IF intersection(keys(handler), STATIC_RESPONSE_KEYS) = {} /\ ~isEmpty(handler)
    THEN Obj(<<KV("body", Str(JSONstringify(handler))),
               KV("headers", Obj(<<KV("content-type", Str("application/json"))>>))>>)
    ELSE handler

\* Mutant: the error of validateStaticResponse is not rethrown.
classifyHandler_IgnoreValidation(handler) ==
    IF isHttpRequestInterceptor(handler) \/ isUndefined(handler)
    THEN [threw |-> "", handler |-> handler, staticResponse |-> Undefined]
    ELSE IF isString(handler)
    THEN [threw |-> "", handler |-> handler, staticResponse |-> Obj(<<KV("body", handler)>>)]
    ELSE IF isObjectLike(handler)
    THEN [threw |-> "", handler |-> wrapJsonHandler(handler),
          staticResponse |-> wrapJsonHandler(handler)]
    ELSE [threw |-> "net_stubbing.invalid_handler", handler |-> handler,
          staticResponse |-> Undefined]

\* Mutant: the string case tests the handler's truthiness, so '' is no static response.
classifyHandler_TruthyString(handler) ==
    IF isString(handler) /\ ~Truthy(handler)
    THEN [threw |-> "", handler |-> handler, staticResponse |-> Undefined]
    ELSE IF isString(handler)
    THEN [threw |-> "", handler |-> handler, staticResponse |-> Obj(<<KV("body", handler)>>)]
    ELSE IF isHttpRequestInterceptor(handler) \/ isUndefined(handler)
    THEN [threw |-> "", handler |-> handler, staticResponse |-> Undefined]
    ELSE IF isObjectLike(handler)
    THEN [threw |-> "", handler |-> handler, staticResponse |-> handler]
    ELSE [threw |-> "net_stubbing.invalid_handler", handler |-> handler,
          staticResponse |-> Undefined]

\* The switch of addRoute: the error thrown (or ""), the handler as stored and
\* the static response (Undefined when there is none).
classifyHandler(handler) ==
    CASE isHttpRequestInterceptor(handler) ->
            [threw |-> "", handler |-> handler, staticResponse |-> Undefined]
      [] isUndefined(handler) ->
            [threw |-> "", handler |-> handler, staticResponse |-> Undefined]
      [] isString(handler) ->
            [threw |-> "", handler |-> handler, staticResponse |-> Obj(<<KV("body", handler)>>)]
      [] isObjectLike(handler) ->
            IF validateStaticResponse(wrapJsonHandler(handler)).ok
            THEN [threw |-> "", handler |-> wrapJsonHandler(handler),
                  staticResponse |-> wrapJsonHandler(handler)]
            ELSE [threw |-> "net_stubbing.invalid_static_response",
                  handler |-> wrapJsonHandler(handler), staticResponse |-> Undefined]
      [] OTHER ->
            [threw |-> "net_stubbing.invalid_handler", handler |-> handler,
             staticResponse |-> Undefined]

NoFrame == [handlerId |-> "", routeMatcher |-> Undefined, staticResponse |-> Undefined]

\* Mutant: a new entry starts with one hit.
RouteEntry_HitCountOne(matcher, handler, alias, staticResponse) ==
    [log |-> getNewRouteLog(matcher, Truthy(handler), alias, staticResponse),
     options |-> matcher,
     handler |-> handler,
     hitCount |-> 1,
     requests |-> <<>>,
     alias |-> IF Truthy(alias) THEN alias ELSE Undefined]

RouteEntry(matcher, handler, alias, staticResponse) ==
    [log |-> getNewRouteLog(matcher, Truthy(handler), alias, staticResponse),
     options |-> matcher,
     handler |-> handler,
     hitCount |-> 0,
     requests |-> <<>>,
     alias |-> IF Truthy(alias) THEN alias ELSE Undefined]

\* state('routes')[handlerId] = entry
putRoute(table, handlerId, entry) ==
    [h \in DOMAIN table \cup {handlerId} |-> IF h = handlerId THEN entry ELSE table[h]]

\* Mutant: the frame is emitted but the entry is not stored.
addRoute_EmitWithoutInsert(table, time, counter, alias, matcher, handler) ==
    [threw |-> classifyHandler(handler).threw,
     handlerId |-> getUniqueId(time, counter + 1),
     idCounter |-> counter + 1,
     routes |-> table,
     frame |-> [handlerId |-> getUniqueId(time, counter + 1),
                routeMatcher |-> annotateMatcherOptionsTypes(matcher),
                staticResponse |->
                    IF Truthy(classifyHandler(handler).staticResponse)
                    THEN getBackendStaticResponse(classifyHandler(handler).staticResponse)
                    ELSE Undefined]]

\* Mutant: the entry is stored before the handler is classified.
addRoute_InsertFirst(table, time, counter, alias, matcher, handler) ==
    [threw |-> classifyHandler(handler).threw,
     handlerId |-> getUniqueId(time, counter + 1),
     idCounter |-> counter + 1,
     routes |-> putRoute(table, getUniqueId(time, counter + 1),
                         RouteEntry(matcher, handler, alias, Undefined)),
     frame |-> [handlerId |-> getUniqueId(time, counter + 1),
                routeMatcher |-> annotateMatcherOptionsTypes(matcher),
                staticResponse |-> Undefined]]

\* addRoute up to the call of emitNetEvent: the identifier drawn, the error
\* thrown (or ""), the registry after it and the frame handed to emitNetEvent.
addRoute(table, time, counter, alias, matcher, handler) ==
    LET handlerId == getUniqueId(time, counter + 1)
        c == classifyHandler(handler)
    IN IF c.threw # ""
       THEN [threw |-> c.threw, handlerId |-> handlerId, idCounter |-> counter + 1,
             routes |-> table, frame |-> NoFrame]
       ELSE [threw |-> "", handlerId |-> handlerId, idCounter |-> counter + 1,
             routes |-> putRoute(table, handlerId,
                                 RouteEntry(matcher, c.handler, alias, c.staticResponse)),
             frame |-> [handlerId |-> handlerId,
                        routeMatcher |-> annotateMatcherOptionsTypes(matcher),
                        staticResponse |->
                            IF Truthy(c.staticResponse)
                            THEN getBackendStaticResponse(c.staticResponse)
                            ELSE Undefined]]

\* The closure of route2 that reads the shorthand forms; it may move arg2 into handler.
getMatcherOptions(matcher, handler, arg2) ==
    IF isString(matcher) /\ isStringMatcher(handler) /\ Truthy(arg2)
    THEN [options |-> Obj(<<KV("method", matcher), KV("url", handler)>>), handler |-> arg2]
    ELSE IF isStringMatcher(matcher)
    THEN [options |-> Obj(<<KV("url", matcher)>>), handler |-> handler]
    ELSE [options |-> matcher, handler |-> handler]

\* Mutant: the matcher is validated after addRoute has run.
route2_ValidateLast(table, time, counter, cfg, alias, matcher, handler, arg2) ==
    LET mo == getMatcherOptions(matcher, handler, arg2)
        r == addRoute(table, time, counter, alias, mo.options, mo.handler)
    IN IF ~cfg
       THEN [threw |-> "net_stubbing.route2_needs_experimental", handlerId |-> "",
             idCounter |-> counter, routes |-> table, frame |-> NoFrame]
       ELSE IF ~validateRouteMatcherOptions(mo.options).ok
       THEN [r EXCEPT !.threw = "net_stubbing.invalid_route_matcher"]
       ELSE r

\* The complete synchronous part of one cy.route2(matcher, handler, arg2) call.
route2(table, time, counter, cfg, alias, matcher, handler, arg2) ==
    LET mo == getMatcherOptions(matcher, handler, arg2)
        none == [threw |-> "", handlerId |-> "", idCounter |-> counter,
                 routes |-> table, frame |-> NoFrame]
    IN IF ~cfg
       THEN [none EXCEPT !.threw = "net_stubbing.route2_needs_experimental"]
       ELSE IF ~validateRouteMatcherOptions(mo.options).ok
       THEN [none EXCEPT !.threw = "net_stubbing.invalid_route_matcher"]
       ELSE addRoute(table, time, counter, alias, mo.options, mo.handler)

\* Mutant: the chain also handles the rejection, .then(() => null, () => null).
thenNull_Swallow(fulfilled, error) == [status |-> "resolved", error |-> ""]

\* addRoute(...).then(() => null): the settlement of the promise route2 returns.
thenNull(fulfilled, error) ==
    IF fulfilled THEN [status |-> "resolved", error |-> ""]
    ELSE [status |-> "rejected", error |-> error]

\* The rollback of a registration whose route:added exchange failed.
rollbackRoute(table, handlerId) ==
    [h \in DOMAIN table \ {handlerId} |-> table[h]]

----------------------------------------------------------------------------
(* Bounds and inputs *)

MaxCalls == 2

Args(matcher, handler, arg2, alias) ==
    [matcher |-> matcher, handler |-> handler, arg2 |-> arg2, alias |-> alias]

NoInput == Args(Undefined, Undefined, Undefined, Undefined)

NoProbe == [validated |-> FALSE, validation |-> Valid, annotated |-> FALSE, annotation |-> Undefined]

UsersJson == Obj(<<KV("id", Num(1)), KV("name", Str("foo"))>>)

MethodUrl == Obj(<<KV("method", Str("GET")), KV("url", Str("/users"))>>)

\* The calls of a session (Spec): one of each shape of matcher and handler.
Scenarios ==
    { Args(Str("/users"), Undefined, Undefined, Str("users")),
      Args(Str("GET"), Str("/users"), Undefined, Undefined),
      Args(Str("GET"), Str("/users"), Arr(<<UsersJson>>), Str("users")),
      Args(MethodUrl, Fn("cb"), Undefined, Undefined),
      Args(Obj(<<>>), Str("hello"), Undefined, Undefined),
      Args(Obj(<<KV("foo", Str("bar"))>>), Undefined, Undefined, Undefined),
      Args(Obj(<<KV("port", Str("abc"))>>), Str("hello"), Undefined, Undefined),
      Args(Obj(<<KV("url", Str(""))>>), Str(""), Undefined, Undefined),
      Args(Str("/users"), Null, Undefined, Undefined),
      Args(Str("/users"), Obj(<<KV("body", Str("x")), KV("destroySocket", Bool(TRUE))>>),
           Undefined, Undefined),
      Args(Str("/users"), Obj(<<>>), Undefined, Undefined),
      Args(RegExpOf("users"), Obj(<<KV("body", Str("x"))>>), Undefined, Str("users")),
      Args(Obj(<<KV("url", RegExpOf("users")),
                 KV("headers", Obj(<<KV("accept", Str("json"))>>))>>),
           Obj(<<KV("statusCode", Num(404))>>), Undefined, Undefined) }

\* The arguments of a single call (SpecArgs): every combination.
MatcherArgs ==
    { Str("/users"), Str("GET"), Str(""), RegExpOf("users"), MethodUrl, Obj(<<>>),
      Obj(<<KV("foo", Str("bar"))>>), Obj(<<KV("port", Str("abc"))>>),
      Obj(<<KV("url", Str(""))>>), Null, Num(5) }

HandlerArgs ==
    { Undefined, Str("/users"), Str("hello"), Str(""), Fn("cb"), RegExpOf("u"),
      UsersJson, Obj(<<>>), Arr(<<>>), Arr(<<UsersJson>>),
      Obj(<<KV("body", Str("x"))>>), Obj(<<KV("statusCode", Num(404))>>),
      Obj(<<KV("body", Str("x")), KV("destroySocket", Bool(TRUE))>>),
      Obj(<<KV("destroySocket", Bool(TRUE))>>),
      Obj(<<KV("statusCode", Num(404)), KV("destroySocket", Bool(TRUE))>>),
      Obj(<<KV("headers", Obj(<<>>)), KV("id", Num(1))>>),
      Null, Num(5), Num(0), Bool(FALSE), Bool(TRUE) }

Arg2Args == { Undefined, Fn("cb"), Str("hello"), Str(""), UsersJson, Obj(<<>>), Null }

AliasArgs == { Undefined, Str("users") }

ArgSpace ==
    { Args(m, h, a, al) : m \in MatcherArgs, h \in HandlerArgs, a \in Arg2Args, al \in AliasArgs }

\* The matchers of SpecMatcher: every combination of a value, or none, per key.
Absent == JSVal("absent", "", 0, <<>>, <<>>)

MatcherObject(pairs) == Obj(SelectSeq(pairs, LAMBDA p : p.v # Absent))

MethodValues == { Absent, Str("GET"), Num(1) }

UrlValues == { Absent, Str("/users"), Str(""), RegExpOf("users"), Undefined }

HeadersValues ==
    { Absent, Obj(<<>>), Obj(<<KV("accept", Str("json"))>>), Obj(<<KV("accept", Num(5))>>),
      Obj(<<KV("accept", RegExpOf("json")), KV("x-empty", Str(""))>>) }

QueryValues == { Absent, Obj(<<KV("q", Str("a"))>>), Obj(<<KV("q", Null)>>) }

HttpsValues == { Absent, Bool(TRUE), Bool(FALSE), Str("yes") }

PortValues ==
    { Absent, Num(80), Str("abc"), Arr(<<Num(80), Num(443)>>), Arr(<<Num(80), Str("x")>>),
      Arr(<<>>) }

WebSocketValues == { Absent, Bool(TRUE) }

OtherValues == { Absent, Str("bar") }

GeneratedMatchers ==
    { MatcherObject(<<KV("method", m), KV("url", u), KV("headers", h), KV("query", q),
                      KV("https", s), KV("port", p), KV("webSocket", w), KV("foo", x)>>) :
        m \in MethodValues, u \in UrlValues, h \in HeadersValues, q \in QueryValues,
        s \in HttpsValues, p \in PortValues, w \in WebSocketValues, x \in OtherValues }

----------------------------------------------------------------------------
(* The event bridge: request lifecycle (Route Registry and Event Protocol Bridge) *)

MaxRequests == 3

TerminalStates == {"responded", "passedThrough", "destroyed"}

NoEvent == [name |-> "", correlationId |-> 0, handlerId |-> ""]

\* contexts: correlation id -> RequestContext; errors: the failures reported;
\* logged: the hits logged for an unknown route; responses: the correlation ids
\* resolved towards the backend; abandoned: the contexts discarded at the end of
\* the session; seen: the correlation ids matched so far; last: the last event.
NoBridge ==
    [contexts |-> <<>>, errors |-> {}, logged |-> {}, responses |-> {},
     abandoned |-> {}, seen |-> {}, ended |-> FALSE, last |-> NoEvent]

RequestContext(correlationId, handlerId) ==
    [correlationId |-> correlationId, handlerId |-> handlerId, state |-> "matched"]

putRequest(requests, correlationId, ctx) ==
    [c \in DOMAIN requests \cup {correlationId} |->
        IF c = correlationId THEN ctx ELSE requests[c]]

dropRequest(requests, correlationId) ==
    [c \in DOMAIN requests \ {correlationId} |-> requests[c]]

\* recordHit(handlerId, requestContext): hitCount + 1 and the context pending;
\* nothing for an unknown handlerId.
recordHit(table, handlerId, ctx) ==
    IF handlerId \in DOMAIN table
    THEN [table EXCEPT ![handlerId].hitCount = @ + 1,
                       ![handlerId].requests = putRequest(@, ctx.correlationId, ctx)]
    ELSE table

\* resolveRequest(handlerId, correlationId): the context leaves pendingRequests.
resolveRequest(table, handlerId, correlationId) ==
    IF handlerId \in DOMAIN table
    THEN [table EXCEPT ![handlerId].requests = dropRequest(@, correlationId)]
    ELSE table

\* Mutant: a later request:completed overwrites the recorded outcome.
completeContext_Overwrite(contexts, correlationId, outcome) ==
    [contexts EXCEPT ![correlationId].state = outcome]

\* The context after request:completed: a terminal context keeps its outcome.
completeContext(contexts, correlationId, outcome) ==
    IF contexts[correlationId].state \in TerminalStates
    THEN contexts
    ELSE [contexts EXCEPT ![correlationId].state = outcome]

\* Mutant: the end of the session keeps the pending contexts.
discardPending_KeepsAll(contexts) == contexts

\* The contexts left when the session ends: the pending ones are discarded.
discardPending(contexts) ==
    [c \in {x \in DOMAIN contexts : contexts[x].state \in TerminalStates} |-> contexts[c]]

----------------------------------------------------------------------------
(* The session: Spec *)

Init ==
    /\ config \in BOOLEAN
    /\ routes = [h \in {} |-> Undefined]
    /\ frames = <<>>
    /\ idCounter = 0
    /\ now = 0
    /\ calls = <<>>
    /\ input = NoInput
    /\ probe = NoProbe
    /\ bridge = NoBridge

\* Mutant: route2 does not return the promise of addRoute; the command ends at once.
Route2Call_FireAndForget(a, t) ==
    LET r == route2(routes, t, idCounter, config, a.alias, a.matcher, a.handler, a.arg2)
        call == [matcher |-> a.matcher, handler |-> a.handler, arg2 |-> a.arg2,
                 alias |-> a.alias, time |-> t, handlerId |-> r.handlerId,
                 status |-> IF r.threw = "" THEN "resolved" ELSE "rejected",
                 error |-> r.threw]
    IN /\ calls' = Append(calls, call)
       /\ idCounter' = r.idCounter
       /\ routes' = r.routes
       /\ frames' = IF r.threw = ""
                    THEN Append(frames, [name |-> "route:added", frame |-> r.frame,
                                         call |-> Len(calls) + 1, state |-> "sent"])
                    ELSE frames
       /\ now' = t
       /\ UNCHANGED <<config, input, probe, bridge>>

\* One cy.route2 call at clock reading t, up to the promise it returns.
Route2Call(a, t) ==
    LET r == route2(routes, t, idCounter, config, a.alias, a.matcher, a.handler, a.arg2)
        call == [matcher |-> a.matcher, handler |-> a.handler, arg2 |-> a.arg2,
                 alias |-> a.alias, time |-> t, handlerId |-> r.handlerId,
                 status |-> IF r.threw = "" THEN "pending" ELSE "rejected",
                 error |-> r.threw]
    IN /\ calls' = Append(calls, call)
       /\ idCounter' = r.idCounter
       /\ routes' = r.routes
       /\ frames' = IF r.threw = ""
                    THEN Append(frames, [name |-> "route:added", frame |-> r.frame,
                                         call |-> Len(calls) + 1, state |-> "sent"])
                    ELSE frames
       /\ now' = t
       /\ UNCHANGED <<config, input, probe, bridge>>

\* The next command of the script is a route2 call; the clock has stood or advanced.
Route2 ==
    /\ Len(calls) < MaxCalls
    /\ \E a \in Scenarios, t \in {now, now + 1} : Route2Call(a, t)

settle(c, s) == [calls EXCEPT ![c].status = s.status, ![c].error = s.error]

\* The backend answers the route:added frame: the promise of emitNetEvent is fulfilled.
BackendAck ==
    \E i \in 1..Len(frames) :
        /\ frames[i].state = "sent"
        /\ frames' = [frames EXCEPT ![i].state = "done"]
        /\ calls' = settle(frames[i].call, thenNull(TRUE, ""))
        /\ UNCHANGED <<config, routes, idCounter, now, input, probe, bridge>>

\* The exchange times out: the promise is rejected and the entry rolled back.
BackendTimeout ==
    \E i \in 1..Len(frames) :
        /\ frames[i].state = "sent"
        /\ frames' = [frames EXCEPT ![i].state = "timeout"]
        /\ routes' = rollbackRoute(routes, frames[i].frame.handlerId)
        /\ calls' = settle(frames[i].call, thenNull(FALSE, "RegistrationTimeout"))
        /\ UNCHANGED <<config, idCounter, now, input, probe, bridge>>

Next == Route2 \/ BackendAck \/ BackendTimeout

Spec == Init /\ [][Next]_vars

----------------------------------------------------------------------------
(* One call with arbitrary arguments: SpecArgs *)

InitArgs ==
    /\ config \in BOOLEAN
    /\ routes = [h \in {} |-> Undefined]
    /\ frames = <<>>
    /\ idCounter = 0
    /\ now = 0
    /\ calls = <<>>
    /\ input \in ArgSpace
    /\ probe = NoProbe
    /\ bridge = NoBridge

Route2Input ==
    /\ calls = <<>>
    /\ Route2Call(input, now)

NextArgs == Route2Input \/ BackendAck \/ BackendTimeout

SpecArgs == InitArgs /\ [][NextArgs]_vars

----------------------------------------------------------------------------
(* The matcher functions applied to one matcher: SpecMatcher *)

InitMatcher ==
    /\ config = TRUE
    /\ routes = [h \in {} |-> Undefined]
    /\ frames = <<>>
    /\ idCounter = 0
    /\ now = 0
    /\ calls = <<>>
    /\ input \in { Args(m, Undefined, Undefined, Undefined) : m \in GeneratedMatchers }
    /\ probe = NoProbe
    /\ bridge = NoBridge

Validate ==
    /\ ~probe.validated
    /\ probe' = [probe EXCEPT !.validated = TRUE,
                              !.validation = validateRouteMatcherOptions(input.matcher)]
    /\ UNCHANGED <<config, routes, frames, idCounter, now, calls, input, bridge>>

Annotate ==
    /\ ~probe.annotated
    /\ probe' = [probe EXCEPT !.annotated = TRUE,
                              !.annotation = annotateMatcherOptionsTypes(input.matcher)]
    /\ UNCHANGED <<config, routes, frames, idCounter, now, calls, input, bridge>>

NextMatcher == Validate \/ Annotate

SpecMatcher == InitMatcher /\ [][NextMatcher]_vars

----------------------------------------------------------------------------
(* Registered routes and live requests: SpecRequests *)

\* The routes the script registers: an observed route with an alias, an interceptor.
SessionRoutes ==
    << Args(Str("/users"), Undefined, Undefined, Str("users")),
       Args(Str("POST"), Str("/login"), Fn("cb"), Undefined) >>

InitRequests ==
    /\ config = TRUE
    /\ routes = [h \in {} |-> Undefined]
    /\ frames = <<>>
    /\ idCounter = 0
    /\ now = 0
    /\ calls = <<>>
    /\ input = NoInput
    /\ probe = NoProbe
    /\ bridge = NoBridge

RegisterRoute ==
    /\ ~bridge.ended
    /\ Len(calls) < Len(SessionRoutes)
    /\ Route2Call(SessionRoutes[Len(calls) + 1], now)

\* request:matched {handlerId, correlationId}: a live request matched a route
\* the backend has acknowledged.
RequestMatched ==
    \E i \in 1..Len(frames) :
        LET h == frames[i].frame.handlerId
            cid == Cardinality(bridge.seen) + 1
        IN /\ cid <= MaxRequests
           /\ frames[i].state = "done"
           /\ routes' = recordHit(routes, h, RequestContext(cid, h))
           /\ bridge' = [bridge EXCEPT
                  !.seen = @ \cup {cid},
                  !.contexts = IF h \in DOMAIN routes
                               THEN putRequest(@, cid, RequestContext(cid, h)) ELSE @,
                  !.logged = IF h \in DOMAIN routes THEN @ ELSE @ \cup {cid},
                  !.last = [name |-> "request:matched", correlationId |-> cid, handlerId |-> h]]
           /\ UNCHANGED <<config, frames, idCounter, now, calls, input, probe>>

\* request:continue-needed: the interceptor of the route is invoked and awaited.
RequestContinueNeeded ==
    \E cid \in DOMAIN bridge.contexts :
        LET ctx == bridge.contexts[cid]
        IN /\ ctx.state = "matched"
           /\ ctx.handlerId \in DOMAIN routes
           /\ isHttpRequestInterceptor(routes[ctx.handlerId].handler)
           /\ bridge' = [bridge EXCEPT
                  !.contexts[cid].state = "awaitingHandler",
                  !.last = [name |-> "request:continue-needed", correlationId |-> cid,
                            handlerId |-> ctx.handlerId]]
           /\ UNCHANGED <<config, routes, frames, idCounter, now, calls, input, probe>>

\* request:completed {handlerId, correlationId, outcome}
RequestCompleted ==
    \E cid \in bridge.seen :
        /\ IF cid \notin DOMAIN bridge.contexts
           THEN /\ bridge' = [bridge EXCEPT
                       !.errors = @ \cup {[kind |-> "UnknownRequest", correlationId |-> cid]},
                       !.last = [name |-> "request:completed", correlationId |-> cid,
                                 handlerId |-> ""]]
                /\ routes' = routes
           ELSE \E outcome \in TerminalStates :
                LET ctx == bridge.contexts[cid]
                    final == ctx.state \in TerminalStates
                IN /\ bridge' = [bridge EXCEPT
                          !.contexts = completeContext(@, cid, outcome),
                          !.errors = IF final
                                     THEN @ \cup {[kind |-> "DoubleResolution",
                                                   correlationId |-> cid]}
                                     ELSE @,
                          !.responses = IF final THEN @ ELSE @ \cup {cid},
                          !.last = [name |-> "request:completed", correlationId |-> cid,
                                    handlerId |-> ctx.handlerId]]
                   /\ routes' = IF final THEN routes
                                ELSE resolveRequest(routes, ctx.handlerId, cid)
        /\ UNCHANGED <<config, frames, idCounter, now, calls, input, probe>>

\* The test session ends: pending contexts are discarded, every entry removed.
Teardown ==
    /\ ~bridge.ended
    /\ routes' = [h \in {} |-> Undefined]
    /\ bridge' = [bridge EXCEPT
           !.contexts = discardPending(@),
           !.abandoned = {c \in DOMAIN bridge.contexts :
                             bridge.contexts[c].state \notin TerminalStates},
           !.ended = TRUE,
           !.last = [name |-> "teardown", correlationId |-> 0, handlerId |-> ""]]
    /\ UNCHANGED <<config, frames, idCounter, now, calls, input, probe>>

NextRequests ==
    \/ RegisterRoute
    \/ BackendAck
    \/ RequestMatched
    \/ RequestContinueNeeded
    \/ RequestCompleted
    \/ Teardown

SpecRequests == InitRequests /\ [][NextRequests]_vars

----------------------------------------------------------------------------
(* Properties *)

\* What addRoute receives for a call: the matcher options and the handler.
Resolved(c) == getMatcherOptions(c.matcher, c.handler, c.arg2)

LastCall == calls'[Len(calls')]

NewCall == Len(calls') = Len(calls) + 1

FrameCall(i) == calls[frames[i].call]

\* C1: a route2 call whose matcher fails validation is rejected with the
\* invalid-matcher error and has no side effect: no identifier is drawn, the
\* registry and the emitted frames are as before the call.
C1_ValidationBeforeSideEffects ==
    [][ (NewCall /\ config /\ ~validateRouteMatcherOptions(Resolved(LastCall).options).ok) =>
            /\ LastCall.status = "rejected"
            /\ LastCall.error = "net_stubbing.invalid_route_matcher"
            /\ LastCall.handlerId = ""
            /\ idCounter' = idCounter
            /\ routes' = routes
            /\ frames' = frames ]_vars

\* C1 witness: a call was rejected for its matcher while the registry held a route.
C1_Witness ==
    \E i \in 1..Len(calls) :
        /\ calls[i].error = "net_stubbing.invalid_route_matcher"
        /\ i > 1
        /\ DOMAIN routes # {}

\* C2: a call rejected for its handler or for its static response leaves the
\* registry unchanged, with no entry under the identifier it drew, and emits no frame.
C2_NoPartialRegistration ==
    [][ (NewCall /\ LastCall.error \in {"net_stubbing.invalid_handler",
                                        "net_stubbing.invalid_static_response"}) =>
            /\ LastCall.status = "rejected"
            /\ routes' = routes
            /\ LastCall.handlerId \notin DOMAIN routes'
            /\ frames' = frames ]_vars

\* C2 witness: one call was rejected for its handler and one for its static response.
C2_Witness ==
    /\ \E i \in 1..Len(calls) : calls[i].error = "net_stubbing.invalid_handler"
    /\ \E i \in 1..Len(calls) : calls[i].error = "net_stubbing.invalid_static_response"

RecognizedMatcherFields == {"method", "url", "headers", "query", "https", "port", "webSocket"}

HasRecognizedField(matcher) == \E k \in RecognizedMatcherFields : hasKey(matcher, k)

\* C3 (as claimed): a registration succeeds only for a matcher with at least
\* one recognized matcher field, so every route entry, and every frame's
\* registration, has such a matcher.
C3_Claim_RecognizedFieldRequired ==
    /\ \A h \in DOMAIN routes : HasRecognizedField(routes[h].options)
    /\ \A i \in 1..Len(frames) : HasRecognizedField(Resolved(FrameCall(i)).options)

HttpMethods == {"GET", "POST", "PUT", "PATCH", "DELETE", "HEAD", "OPTIONS"}

\* The call has the form (method, url) with the handler omitted.
IsMethodUrlCall(c) ==
    /\ isString(c.matcher) /\ c.matcher.s \in HttpMethods
    /\ isStringMatcher(c.handler)
    /\ isUndefined(c.arg2)

\* The call has the form (url) with the handler omitted.
IsUrlCall(c) == isStringMatcher(c.matcher) /\ isUndefined(c.handler) /\ isUndefined(c.arg2)

\* C4 (as claimed): a (method, url) call without handler registers a
\* passthrough route with matcher {method, url} and no static response, and a
\* (url) call registers a passthrough route with matcher {url}.
C4_Claim_ShorthandForms ==
    \A i \in 1..Len(frames) :
        LET c == FrameCall(i)
            f == frames[i].frame
        IN /\ IsMethodUrlCall(c) =>
                /\ f.staticResponse = Undefined
                /\ f.handlerId \in DOMAIN routes =>
                      routes[f.handlerId].options =
                          Obj(<<KV("method", c.matcher), KV("url", c.handler)>>)
           /\ IsUrlCall(c) =>
                /\ f.staticResponse = Undefined
                /\ f.handlerId \in DOMAIN routes =>
                      routes[f.handlerId].options = Obj(<<KV("url", c.matcher)>>)

IsMapping(h) == h.t \in {"object", "array"}

SharesNoStaticResponseKey(h) ==
    \A i \in 1..Len(keys(h)) :
        keys(h)[i] \notin {"body", "fixture", "statusCode", "headers", "destroySocket"}

JsonWrapped(h, staticResponse) ==
    /\ getKey(staticResponse, "body") = Str(JSONstringify(h))
    /\ get(staticResponse, <<"headers", "content-type">>) = Str("application/json")

UsedDirectly(h, staticResponse) ==
    /\ \A i \in 1..Len(keys(h)) : getKey(staticResponse, keys(h)[i]) = getKey(h, keys(h)[i])
    /\ getKey(staticResponse, "body") # Str(JSONstringify(h))
    /\ ~has(staticResponse, <<"headers", "content-type">>)

----------------------------------------------------------------------------
(* Properties of the matcher functions *)

Present(m, k) == \E i \in 1..Len(m.e) : m.e[i].k = k

ValueOf(m, k) == m.e[CHOOSE i \in 1..Len(m.e) : m.e[i].k = k].v

IsPattern(v) == v.t \in {"string", "regexp"}

\* The contract of the validator, read off the matcher itself.
MalformedByContract(m) ==
    \/ m.e = <<>>
    \/ \E k \in {"method", "url"} : Present(m, k) /\ ~IsPattern(ValueOf(m, k))
    \/ \E d \in {"headers", "query"} :
          /\ Present(m, d)
          /\ \E i \in 1..Len(ValueOf(m, d).e) : ~IsPattern(ValueOf(m, d).e[i].v)
    \/ Present(m, "https") /\ ValueOf(m, "https").t # "boolean"
    \/ /\ Present(m, "port")
       /\ ValueOf(m, "port").t # "number"
       /\ ~(/\ ValueOf(m, "port").t = "array"
            /\ \A i \in 1..Len(ValueOf(m, "port").l) : ValueOf(m, "port").l[i].t = "number")

\* C6: validation fails exactly when the matcher is empty, a present method,
\* url or headers/query entry is no string or pattern, https is present and no
\* boolean, or port is present and neither a number nor a list of numbers.
C6_ValidationContract ==
    probe.validated => (probe.validation.ok <=> ~MalformedByContract(input.matcher))

\* C6 witness: {port: [80, 443]} was validated and accepted.
C6_Witness ==
    /\ probe.validated
    /\ probe.validation.ok
    /\ input.matcher = Obj(<<KV("port", Arr(<<Num(80), Num(443)>>))>>)

Tagged(v) ==
    Obj(<<KV("type", Str(IF v.t = "regexp" THEN "regex" ELSE "glob")),
          KV("value", Str(ToStr(v)))>>)

\* C7 (as claimed): for a valid matcher, every present method, url and
\* headers/query entry, the empty string included, is annotated with its kind
\* and string form, and https, port and webSocket are copied.
C7_Claim_AnnotationLossless ==
    (probe.annotated /\ ~MalformedByContract(input.matcher)) =>
        LET m == input.matcher
            a == probe.annotation
        IN /\ \A k \in {"method", "url"} :
                Present(m, k) => (Present(a, k) /\ ValueOf(a, k) = Tagged(ValueOf(m, k)))
           /\ \A d \in {"headers", "query"} :
                Present(m, d) =>
                    \A i \in 1..Len(ValueOf(m, d).e) :
                        LET p == ValueOf(m, d).e[i]
                        IN /\ Present(a, d)
                           /\ Present(ValueOf(a, d), p.k)
                           /\ ValueOf(ValueOf(a, d), p.k) = Tagged(p.v)
           /\ \A k \in {"https", "port", "webSocket"} :
                /\ Present(m, k) <=> Present(a, k)
                /\ Present(m, k) => ValueOf(a, k) = ValueOf(m, k)

----------------------------------------------------------------------------
(* Properties of the exchange with the backend *)

LiveFrames == {i \in 1..Len(frames) : frames[i].state # "timeout"}

----------------------------------------------------------------------------
(* Properties of the registration steps *)

InvalidHandlerValue(h) == h.t \in {"null", "number", "boolean"}

\* The call has the form (method, url, handler).
IsMethodUrlHandlerCall(c) ==
    /\ isString(c.matcher) /\ c.matcher.s \in HttpMethods
    /\ isStringMatcher(c.handler)
    /\ ~isUndefined(c.arg2)

\* The handler the caller passed, by the form of the call.
SuppliedHandler(c) == IF IsMethodUrlHandlerCall(c) THEN c.arg2 ELSE c.handler

\* C11 (as claimed): a call whose matcher is valid and whose handler is null,
\* a number or a boolean is rejected with the invalid-handler error, in the
\* (matcher, handler) form and in the (method, url, handler) form.
C11_Claim_InvalidHandlerRejected ==
    \A i \in 1..Len(calls) :
        LET c == calls[i]
        IN (/\ config
            /\ InvalidHandlerValue(SuppliedHandler(c))
            /\ (IsMethodUrlHandlerCall(c) \/ validateRouteMatcherOptions(Resolved(c).options).ok))
           => (c.status = "rejected" /\ c.error = "net_stubbing.invalid_handler")

\* C12: the step that hands a route:added frame to the bridge has stored
\* exactly one new entry, under the frame's handlerId, with hitCount 0 and no
\* pending request; no other frame carries that handlerId, no other entry
\* changes, and no entry is stored without a frame.
C12_OneEntryPerRegistration ==
    [][ /\ Len(frames') = Len(frames) + 1 =>
            LET f == frames'[Len(frames')].frame
            IN /\ f.handlerId \notin DOMAIN routes
               /\ DOMAIN routes' = DOMAIN routes \cup {f.handlerId}
               /\ routes'[f.handlerId].hitCount = 0
               /\ routes'[f.handlerId].requests = <<>>
               /\ \A h \in DOMAIN routes : routes'[h] = routes[h]
               /\ \A i \in 1..Len(frames) : frames[i].frame.handlerId # f.handlerId
               /\ NewCall /\ LastCall.handlerId = f.handlerId /\ LastCall.status = "pending"
        /\ (DOMAIN routes' \ DOMAIN routes # {}) => Len(frames') = Len(frames) + 1 ]_vars

\* C12 witness: a frame is with the bridge and its entry is in the registry, unhit.
C12_Witness ==
    \E i \in 1..Len(frames) :
        /\ frames[i].state = "sent"
        /\ frames[i].frame.handlerId \in DOMAIN routes
        /\ routes[frames[i].frame.handlerId].hitCount = 0
        /\ Len(frames) = 2

ConflictingResponseFields(sr) ==
    /\ Truthy(getKey(sr, "destroySocket"))
    /\ (hasKey(sr, "body") \/ hasKey(sr, "statusCode"))

\* C13: no route entry and no frame has a static response that sets
\* destroySocket together with a body or a statusCode; a call with such a
\* handler is rejected with the invalid-static-response error and stores nothing.
C13_NoConflictingResponse ==
    /\ \A h \in DOMAIN routes :
          isObjectLike(routes[h].handler) => ~ConflictingResponseFields(routes[h].handler)
    /\ \A i \in 1..Len(frames) : ~ConflictingResponseFields(frames[i].frame.staticResponse)
    /\ \A i \in 1..Len(calls) :
          (/\ config
           /\ validateRouteMatcherOptions(Resolved(calls[i]).options).ok
           /\ IsMapping(Resolved(calls[i]).handler)
           /\ ConflictingResponseFields(Resolved(calls[i]).handler))
          => /\ calls[i].status = "rejected"
             /\ calls[i].error = "net_stubbing.invalid_static_response"
             /\ routes = [h \in {} |-> Undefined]
             /\ frames = <<>>

\* C13 witness: the handler {body: 'x', destroySocket: true} was rejected.
C13_Witness ==
    \E i \in 1..Len(calls) :
        /\ Resolved(calls[i]).handler =
              Obj(<<KV("body", Str("x")), KV("destroySocket", Bool(TRUE))>>)
        /\ calls[i].error = "net_stubbing.invalid_static_response"

\* C17 (as claimed): an identifier is drawn only after the handler has been
\* classified and its static response accepted, so a call rejected for its
\* handler or its static response has drawn none.
C17_Claim_IdAfterClassification ==
    \A i \in 1..Len(calls) :
        calls[i].error \in {"net_stubbing.invalid_handler",
                            "net_stubbing.invalid_static_response"}
        => (calls[i].handlerId = "" /\ idCounter = 0)

\* C18: a call has resolved only when its route:added exchange has completed.
C18_ResolvesAfterExchange ==
    /\ \A i \in 1..Len(frames) :
          FrameCall(i).status = "resolved" => frames[i].state = "done"
    /\ \A c \in 1..Len(calls) :
          calls[c].status = "resolved" => \E i \in 1..Len(frames) : frames[i].call = c

\* C18 witness: one call has resolved while the exchange of another is outstanding.
C18_Witness ==
    \E i, j \in 1..Len(frames) :
        /\ FrameCall(i).status = "resolved"
        /\ frames[j].state = "sent" /\ FrameCall(j).status = "pending"

\* C19 (as claimed): a route is recorded as stubbed exactly when a handler
\* was supplied, so every route with a static response is recorded as stubbed.
C19_Claim_StubbedFlag ==
    \A i \in 1..Len(frames) :
        LET f == frames[i].frame
        IN f.handlerId \in DOMAIN routes =>
             /\ routes[f.handlerId].log.isStubbed <=> ~isUndefined(Resolved(FrameCall(i)).handler)
             /\ f.staticResponse # Undefined => routes[f.handlerId].log.isStubbed

----------------------------------------------------------------------------
(* Properties of the request lifecycle *)

IsTerminal(ctx) == ctx.state \in TerminalStates

ContextsOf(contexts, handlerId) ==
    {c \in DOMAIN contexts : contexts[c].handlerId = handlerId}

CompletedEvent(correlationId) ==
    /\ bridge' # bridge
    /\ bridge'.last.name = "request:completed"
    /\ bridge'.last.correlationId = correlationId

MatchedEvent ==
    /\ bridge'.seen # bridge.seen
    /\ bridge'.last.name = "request:matched"

\* C14: a correlation id is resolved at most once. No step changes a
\* RequestContext that has reached responded, passedThrough or destroyed, and
\* a request:completed event for such a context is reported as DoubleResolution
\* and resolves nothing further.
C14_AtMostOneResolution ==
    [][ \A c \in DOMAIN bridge.contexts :
          IsTerminal(bridge.contexts[c]) =>
             /\ c \in DOMAIN bridge'.contexts
             /\ bridge'.contexts[c] = bridge.contexts[c]
             /\ CompletedEvent(c) =>
                   /\ [kind |-> "DoubleResolution", correlationId |-> c] \in bridge'.errors
                   /\ bridge'.responses = bridge.responses
                   /\ routes' = routes ]_vars

\* A second request:completed arrived for a request already responded to.
C14_Witness ==
    \E c \in DOMAIN bridge.contexts :
        /\ bridge.contexts[c].state = "responded"
        /\ [kind |-> "DoubleResolution", correlationId |-> c] \in bridge.errors
        /\ c \in bridge.responses

\* C15: hitCount starts at 0, never decreases and counts the request:matched
\* events recorded for the route, each with one RequestContext, whatever the
\* interleaving; a hit for an unknown handlerId changes no entry and reports
\* no error.
C15_HitCountCountsMatches ==
    [][ /\ \A h \in DOMAIN routes' \ DOMAIN routes : routes'[h].hitCount = 0
        /\ \A h \in DOMAIN routes' :
              /\ routes'[h].hitCount = Cardinality(ContextsOf(bridge'.contexts, h))
              /\ DOMAIN routes'[h].requests =
                    {c \in ContextsOf(bridge'.contexts, h) : ~IsTerminal(bridge'.contexts[c])}
        /\ \A h \in DOMAIN routes \cap DOMAIN routes' :
              /\ routes'[h].hitCount >= routes[h].hitCount
              /\ (MatchedEvent /\ bridge'.last.handlerId = h)
                    => routes'[h].hitCount = routes[h].hitCount + 1
        /\ (MatchedEvent /\ bridge'.last.handlerId \notin DOMAIN routes) =>
              /\ routes' = routes
              /\ bridge'.contexts = bridge.contexts
              /\ bridge'.errors = bridge.errors ]_vars

\* Three live requests matched one route and each reached a terminal state.
C15_Witness ==
    \E h \in DOMAIN routes :
        /\ routes[h].hitCount = MaxRequests
        /\ routes[h].requests = <<>>
        /\ Cardinality(ContextsOf(bridge.contexts, h)) = MaxRequests
        /\ \A c \in ContextsOf(bridge.contexts, h) : IsTerminal(bridge.contexts[c])

\* C16: the end of the session discards every pending RequestContext without
\* resolving it and removes every RouteEntry; afterwards the registry stays
\* empty and no response is sent for a request that was pending.
C16_TeardownDiscardsPending ==
    [][ /\ (~bridge.ended /\ bridge'.ended) =>
              /\ DOMAIN routes' = {}
              /\ bridge'.responses = bridge.responses
              /\ \A c \in DOMAIN bridge.contexts :
                    IF IsTerminal(bridge.contexts[c])
                    THEN c \in DOMAIN bridge'.contexts
                    ELSE /\ c \notin DOMAIN bridge'.contexts
                         /\ c \in bridge'.abandoned
                         /\ c \notin bridge'.responses
        /\ bridge.ended =>
              /\ bridge'.ended
              /\ DOMAIN routes' = {}
              /\ bridge'.abandoned = bridge.abandoned
              /\ \A c \in bridge.abandoned :
                    /\ c \notin bridge'.responses
                    /\ c \notin DOMAIN bridge'.contexts ]_vars

\* The session ended with two requests pending; a late request:completed for
\* one of them found no context and no response was sent.
C16_Witness ==
    /\ bridge.ended
    /\ DOMAIN routes = {}
    /\ Cardinality(bridge.abandoned) = 2
    /\ bridge.responses \cap bridge.abandoned = {}
    /\ \E c \in bridge.abandoned :
          [kind |-> "UnknownRequest", correlationId |-> c] \in bridge.errors

====
